---------------------------- MODULE Spec2Model ----------------------------
(***************************************************************************)
(* Control plane of the pinnacle compositor: the control-socket hot-swap   *)
(* and config restart (src/src/state.rs, src/src/config.rs), start_config  *)
(* with its command splitting and env expansion (src/src/config.rs), the   *)
(* command channel drained by the state owner (src/src/state.rs), the      *)
(* libinput device settings registry (src/src/input/libinput.rs), the      *)
(* deferred scheduler (src/src/state.rs) and the layout stream             *)
(* (src/src/api/layout.rs).                                                *)
(*                                                                         *)
(* The components share no state, so each has its own specification over   *)
(* the same variables: SpecConfig, SpecStart, SpecChannel, SpecDevices,    *)
(* SpecSched, SpecCommit (schedule_on_commit and the windows it waits      *)
(* for), SpecLayout (connection, teardown and pushes of the layout         *)
(* stream), SpecLayoutRequests (the requests of connected streams) and     *)
(* SpecLayoutGeometries (requests and pushes of connected streams).        *)
(* Spec is their composition.                                              *)
(***************************************************************************)
EXTENDS Integers, Sequences, FiniteSets, TLC

\* ------------------------------------------------------------------ bounds
MaxAccepts == 3
MaxRestarts == 1
NumOutputs == 2
MaxTagId == 2
MaxQueued == 1
NumProducers == 2
MaxSubmits == 4
MaxEntries == 2
MaxConnects == 2
NumJobs == 2
MaxK == 2
MaxTurns == 4
NumStreams == 2
MaxPushes == 2
MaxRequests == 1
MaxCmdLen == 3
MaxParts == 2
NumWindows == 2

VARIABLES
    \* ---- control socket and config lifecycle (state.rs, config.rs)
    stream,          \* ApiState.stream: 0 is None, t > 0 the transport t
    accepted,        \* number of connections accepted so far
    shutdownCalls,   \* per transport: how often shutdown(Both) was invoked
    released,        \* transports the core has dropped
    callsAtRelease,  \* per transport: shutdownCalls when it was dropped
    aborted,         \* the process panicked
    lastAcceptVia,   \* which registration's callback took the last accept
    sources,         \* registered control-socket sources: token -> origin
    socket_token,    \* ApiState.socket_token
    tags,            \* per output of the space: its tag ids
    tagIdCounter,    \* the TagId allocator
    keybinds,        \* InputState.keybinds
    mousebinds,      \* InputState.mousebinds
    window_rules,    \* State.window_rules
    reload_keybind,  \* InputState.reload_keybind: the restart it came from
    kill_keybind,    \* InputState.kill_keybind
    config_process,  \* ApiState.config_process: the child it refers to
    running,         \* config children spawned by the core, still running
    spawned,         \* number of config children spawned so far
    restarts,        \* number of restart_config calls so far
    rpc,             \* position inside restart_config
    ret,             \* locals of restart_config: the ConfigReturn, kill result
    cmdQueue,        \* command channel: the config child each queued command is from
    lastShutdown,    \* how shutting down the displaced transport ended, last accept
    \* ---- command channel and state owner (state.rs)
    chanPc,          \* position inside State::init after the channel exists
    queue,           \* commands sent and not yet received
    chanOpen,        \* some sender of the channel is alive
    rxRegistered,    \* the receiver is a source of the reactor
    idlePending,     \* init's idle callback is queued
    phase,           \* the reactor's position inside a turn
    executed,        \* the commands handle_msg ran, in order
    sent,            \* per producer: how many commands it submitted
    early,           \* commands submitted before the receiver was registered
    chanAborted,     \* the Closed event was seen (todo!() panicked)
    \* ---- libinput device settings (input/libinput.rs)
    libinput_devices,   \* InputState.libinput_devices: the configured devices
    libinput_settings,  \* InputState.libinput_settings: category -> entries
    lastEvent,          \* the event apply_libinput_settings handled last
    lastApplied,        \* the <<category, entry>> settings it applied
    applications,       \* per device and category: settings applied so far
    connects,           \* per device: device-added events that configured it
    removals,           \* per device: device-removed events that removed it
    lastAdded,       \* per device: its last event was device-added
    \* ---- deferred scheduler (state.rs)
    turn,            \* the reactor turn being dispatched
    schedPhase,      \* "events" or "idles": the part of the turn
    idles,           \* LoopHandle's idle list: callbacks queued by insert_idle
    runningIdles,    \* the idle callbacks this turn's dispatch_idles took
    jobState,        \* per schedule call: "uncalled", "waiting" or "done"
    jobK,            \* per call: its predicate is false for K turns
    callTurn,        \* per call: the turn schedule() was called in
    runTurn,         \* per call: the turn its action ran in
    runs,            \* per call: how often its action ran
    everQueued,      \* per call: an idle callback was queued for it
    evals,           \* per call: predicate evaluations in the current turn
    queuedAt,        \* per call: turn and phase its idle callback was queued in
    recheck,         \* per call: its last re-check, when queued and when run
    windowAlive,     \* per window: WindowElement::alive()
    locRequestState, \* per window: loc_request_state, "Idle" or "Sent"
    commitState,     \* the schedule_on_commit call: "uncalled", "waiting", "done"
    commitWindows,   \* the windows the call was given
    commitRuns,      \* how often on_commit ran
    commitCheck,     \* the call's last check: what it saw and what it did
    commitQueuedAt,  \* turn and phase the call's idle callback was queued in
    commitRecheck,   \* the call's last re-check, when queued and when run
    \* ---- layout stream (api/layout.rs)
    layout_request_sender,  \* LayoutState.layout_request_sender: 0 is None
    streamState,     \* per layout stream: "unconnected", "open" or "closed"
    fnQueue,         \* StateFnSender's channel: closures sent, not yet run
    received,        \* per stream: layout pushes sent on its sender
    connectLog,      \* the streams whose on-connect closure ran, in order
    lastPush,        \* the last push: its stream, and whether it was closed
    outputsPresent,  \* the outputs that exist, by name
    focusedOutput,   \* state.focused_output(): 0 is None
    requested,       \* number of layout requests clients have sent
    lastRequest,     \* the request the closure handled last, and what it did
    executedRequests, \* the requests the closure handled, oldest first
    \* ---- start_config (config.rs)
    scPc,            \* position inside start_config
    metaconfig,      \* the parsed Metaconfig: command, envs and socket_dir
    processEnv,      \* the core's environment: variable -> value or "unset"
    scSpawn,         \* the Command that was spawned: program, args, envs
    scResult,        \* how start_config ended
    cwd,             \* the working directory of the process
    runtimeDir,      \* XDG_BASE_DIRS.get_runtime_directory(), as start_config saw it
    socketDir        \* the directory start_config chose for the control socket

configVars == <<stream, accepted, lastAcceptVia, shutdownCalls, released, callsAtRelease,
                aborted, sources, socket_token, tags, tagIdCounter, keybinds,
                mousebinds, window_rules, reload_keybind, kill_keybind,
                config_process, running, spawned, restarts, rpc, ret,
                cmdQueue, lastShutdown>>

channelVars == <<chanPc, queue, chanOpen, rxRegistered, idlePending, phase,
                 executed, sent, early, chanAborted>>

deviceVars == <<libinput_devices, libinput_settings, lastEvent, lastApplied,
                applications, connects, removals, lastAdded>>

commitVars == <<windowAlive, locRequestState, commitState, commitWindows,
                commitRuns, commitCheck, commitQueuedAt, commitRecheck>>

schedVars == <<turn, schedPhase, idles, runningIdles, jobState, jobK,
               callTurn, runTurn, runs, everQueued, evals, queuedAt, recheck,
               commitVars>>

layoutVars == <<layout_request_sender, streamState, fnQueue, received,
                connectLog, lastPush, outputsPresent, focusedOutput,
                requested, lastRequest, executedRequests>>

startVars == <<scPc, metaconfig, processEnv, scSpawn, scResult, cwd,
               runtimeDir, socketDir>>

Transports == 1..MaxAccepts
Outputs == 1..NumOutputs
\* One key stands for any: the code only ever adds to these collections and
\* clears them whole.
Binds == {"bind"}
ConfigChildren == 1..(MaxRestarts + 1)
NoPre == [reload_keybind |-> 0, kill_keybind |-> 0, config_process |-> 0,
          socket_token |-> 0]
NoRet == [child |-> 0, source |-> FALSE, kill |-> "none", dirty |-> FALSE,
          steps |-> <<>>, pre |-> NoPre]

\* ================================================================ helpers
\* Option::replace: the slot holds the new value, the old one is returned.
OptionReplace(slot, new) == [slot |-> new, old |-> slot]

\* how shutting down a displaced transport can end
ShutdownOutcomes == {"ok", "shutdown_err", "lock_poisoned"}

\* C1 mutant: the displaced transport is dropped without shutdown
AcceptCallbackNoShutdown(t, outcome) ==
    LET r == OptionReplace(stream, t) IN
    /\ stream' = r.slot
    /\ aborted' = aborted
    /\ shutdownCalls' = shutdownCalls
    /\ released' = IF r.old # 0 THEN released \cup {r.old} ELSE released
    /\ callsAtRelease' = IF r.old # 0
                           THEN [callsAtRelease EXCEPT ![r.old] = shutdownCalls[r.old]]
                           ELSE callsAtRelease

\* C20 mutant: a failing lock or shutdown is ignored, the reactor goes on
AcceptCallbackIgnoresFailure(t, outcome) ==
    LET r == OptionReplace(stream, t) IN
    /\ stream' = r.slot
    /\ aborted' = aborted
    /\ IF r.old = 0
         THEN /\ outcome = "ok"
              /\ UNCHANGED <<shutdownCalls, released, callsAtRelease>>
         ELSE /\ shutdownCalls' =
                    IF outcome = "lock_poisoned" THEN shutdownCalls
                    ELSE [shutdownCalls EXCEPT ![r.old] = @ + 1]
              /\ released' = released \cup {r.old}
              /\ callsAtRelease' =
                    [callsAtRelease EXCEPT ![r.old] = shutdownCalls'[r.old]]

\* The accept callback of the control-socket source: install the new
\* transport, then shut the displaced one down and drop it.  A failing lock
\* or shutdown panics (expect) with the new transport already installed.
AcceptCallback(t, outcome) ==
    LET r == OptionReplace(stream, t) IN
    /\ stream' = r.slot
    /\ IF r.old = 0
         THEN /\ outcome = "ok"
              /\ UNCHANGED <<shutdownCalls, released, callsAtRelease, aborted>>
         ELSE /\ shutdownCalls' =
                    IF outcome = "lock_poisoned" THEN shutdownCalls
                    ELSE [shutdownCalls EXCEPT ![r.old] = @ + 1]
              /\ aborted' = (outcome # "ok")
              /\ released' = released \cup {r.old}
              /\ callsAtRelease' =
                    [callsAtRelease EXCEPT ![r.old] = shutdownCalls'[r.old]]

\* The callback restart_config registers with the new source: the same body.
RestartAcceptCallback(t, outcome) == AcceptCallback(t, outcome)

\* ============================================== control socket: accept
\* A connection arrives on a registered control-socket source; the reactor
\* runs the callback the source was registered with (init's or
\* restart_config's: the same body).
Accept ==
    /\ ~aborted /\ rpc = "idle"
    /\ accepted < MaxAccepts
    /\ \E tok \in DOMAIN sources : \E outcome \in ShutdownOutcomes :
          /\ IF sources[tok] = "init"
               THEN AcceptCallback(accepted + 1, outcome)
               ELSE RestartAcceptCallback(accepted + 1, outcome)
          /\ lastAcceptVia' = sources[tok]
          /\ lastShutdown' = IF stream = 0 THEN "none" ELSE outcome
    /\ accepted' = accepted + 1
    /\ UNCHANGED <<sources, socket_token, tags, tagIdCounter, keybinds,
                   mousebinds, window_rules, reload_keybind, kill_keybind,
                   config_process, running, spawned, restarts, rpc, ret>>
    /\ UNCHANGED cmdQueue
    /\ UNCHANGED <<channelVars, deviceVars, schedVars, layoutVars, startVars>>


\* ============================================ commands of the config client
\* A running config child's client sends a command: it joins the back of
\* the command channel (tx_channel), tagged here with the child it is from.
SendCommand(p) ==
    /\ ~aborted
    /\ p \in running
    /\ Len(cmdQueue) < MaxQueued
    /\ cmdQueue' = Append(cmdQueue, p)
    /\ UNCHANGED <<stream, accepted, lastAcceptVia, shutdownCalls, released,
                   callsAtRelease, aborted, sources, socket_token, tags,
                   tagIdCounter, keybinds, mousebinds, window_rules,
                   reload_keybind, kill_keybind, config_process, running,
                   spawned, restarts, rpc, ret, lastShutdown>>
    /\ UNCHANGED <<channelVars, deviceVars, schedVars, layoutVars, startVars>>

\* The state owner takes the oldest queued command off the channel and
\* executes it (Event::Msg(msg) => handle_msg(msg)).  What a config
\* registers through its commands; restart_config clears all of it.
AddTag(o) ==
    /\ ~aborted /\ rpc = "idle"
    /\ cmdQueue # <<>>
    /\ cmdQueue' = Tail(cmdQueue)
    /\ tagIdCounter < MaxTagId
    /\ tags' = [tags EXCEPT ![o] = @ \cup {tagIdCounter}]
    /\ tagIdCounter' = tagIdCounter + 1
    /\ UNCHANGED <<stream, accepted, lastAcceptVia, shutdownCalls, released, callsAtRelease,
                   aborted, sources, socket_token, keybinds, mousebinds,
                   window_rules, reload_keybind, kill_keybind, config_process,
                   running, spawned, restarts, rpc, ret>>
    /\ UNCHANGED lastShutdown
    /\ UNCHANGED <<channelVars, deviceVars, schedVars, layoutVars, startVars>>

AddKeybind(b) ==
    /\ ~aborted /\ rpc = "idle"
    /\ cmdQueue # <<>>
    /\ cmdQueue' = Tail(cmdQueue)
    /\ b \notin keybinds
    /\ keybinds' = keybinds \cup {b}
    /\ UNCHANGED <<stream, accepted, lastAcceptVia, shutdownCalls, released, callsAtRelease,
                   aborted, sources, socket_token, tags, tagIdCounter,
                   mousebinds, window_rules, reload_keybind, kill_keybind,
                   config_process, running, spawned, restarts, rpc, ret>>
    /\ UNCHANGED lastShutdown
    /\ UNCHANGED <<channelVars, deviceVars, schedVars, layoutVars, startVars>>

AddMousebind(b) ==
    /\ ~aborted /\ rpc = "idle"
    /\ cmdQueue # <<>>
    /\ cmdQueue' = Tail(cmdQueue)
    /\ b \notin mousebinds
    /\ mousebinds' = mousebinds \cup {b}
    /\ UNCHANGED <<stream, accepted, lastAcceptVia, shutdownCalls, released, callsAtRelease,
                   aborted, sources, socket_token, tags, tagIdCounter,
                   keybinds, window_rules, reload_keybind, kill_keybind,
                   config_process, running, spawned, restarts, rpc, ret>>
    /\ UNCHANGED lastShutdown
    /\ UNCHANGED <<channelVars, deviceVars, schedVars, layoutVars, startVars>>

AddWindowRule(b) ==
    /\ ~aborted /\ rpc = "idle"
    /\ cmdQueue # <<>>
    /\ cmdQueue' = Tail(cmdQueue)
    /\ b \notin window_rules
    /\ window_rules' = window_rules \cup {b}
    /\ UNCHANGED <<stream, accepted, lastAcceptVia, shutdownCalls, released, callsAtRelease,
                   aborted, sources, socket_token, tags, tagIdCounter,
                   keybinds, mousebinds, reload_keybind, kill_keybind,
                   config_process, running, spawned, restarts, rpc, ret>>
    /\ UNCHANGED lastShutdown
    /\ UNCHANGED <<channelVars, deviceVars, schedVars, layoutVars, startVars>>

\* handle_msg of a command that touches none of these collections
HandleOtherMsg ==
    /\ ~aborted /\ rpc = "idle"
    /\ cmdQueue # <<>>
    /\ cmdQueue' = Tail(cmdQueue)
    /\ UNCHANGED <<stream, accepted, lastAcceptVia, shutdownCalls, released,
                   callsAtRelease, aborted, sources, socket_token, tags,
                   tagIdCounter, keybinds, mousebinds, window_rules,
                   reload_keybind, kill_keybind, config_process, running,
                   spawned, restarts, rpc, ret, lastShutdown>>
    /\ UNCHANGED <<channelVars, deviceVars, schedVars, layoutVars, startVars>>

\* A config child exits on its own.
ProcessExit ==
    /\ ~aborted
    /\ \E p \in running : running' = running \ {p}
    /\ UNCHANGED <<stream, accepted, lastAcceptVia, shutdownCalls, released, callsAtRelease,
                   aborted, sources, socket_token, tags, tagIdCounter,
                   keybinds, mousebinds, window_rules, reload_keybind,
                   kill_keybind, config_process, spawned, restarts, rpc, ret>>
    /\ UNCHANGED <<cmdQueue, lastShutdown>>
    /\ UNCHANGED <<channelVars, deviceVars, schedVars, layoutVars, startVars>>

\* ========================================================== restart_config
\* C4 mutant: only the first output of the space is cleared
ClearTagsFirstOnly(tg) == [o \in DOMAIN tg |-> IF o = 1 THEN {} ELSE tg[o]]

\* for output in self.space.outputs() { tags.clear() }
ClearTags(tg) == [o \in DOMAIN tg |-> {}]

\* TagId::reset(): the allocator is back at its initial value
TagIdInitial == 0
TagIdReset == TagIdInitial

\* The statements of restart_config in program order; "ret_ok" is Ok(()).
RestartOrder ==
    <<"clear", "kill", "remove", "start", "insert", "install", "ret_ok">>

\* C16 mutant: the new config is started and registered before the old one
\* is killed and its source removed
FollowingSpawnFirst(step) ==
    CASE step = "clear" -> "start"
      [] step = "start" -> "insert"
      [] step = "insert" -> "kill"
      [] step = "kill" -> "remove"
      [] step = "remove" -> "install"
      [] step = "install" -> "ret_ok"

\* the statement that follows a statement which did not return early
Following(step) ==
    LET i == CHOOSE k \in 1..(Len(RestartOrder) - 1) : RestartOrder[k] = step
    IN RestartOrder[i + 1]

\* C17 mutant: a failing kill makes restart_config return the error
AfterKillPropagates(outcome) ==
    IF outcome = "err" THEN "ret_err" ELSE Following("kill")

\* if let Err(err) = config_process.kill() { warn!(..) }: go on either way
AfterKill(outcome) == Following("kill")

\* C19 mutant: the old source stays registered
RemoveKeepsSource(srcs, tok) == srcs

\* loop_handle.remove(token): the source is no longer registered
Remove(srcs, tok) == [t \in DOMAIN srcs \ {tok} |-> srcs[t]]

\* lines 222-235: clear tags, reset the allocator, clear binds and rules
RestartClear ==
    /\ ~aborted /\ rpc = "idle"
    /\ restarts < MaxRestarts
    /\ restarts' = restarts + 1
    /\ tags' = ClearTags(tags)
    /\ tagIdCounter' = TagIdReset
    /\ keybinds' = {}
    /\ mousebinds' = {}
    /\ window_rules' = {}
    /\ rpc' = Following("clear")
    /\ ret' = [NoRet EXCEPT !.dirty =
                  /\ \A o \in Outputs : tags[o] # {}
                  /\ tagIdCounter # TagIdInitial
                  /\ keybinds # {} /\ mousebinds # {} /\ window_rules # {},
                             !.steps = <<"clear">>,
                             !.pre = [reload_keybind |-> reload_keybind,
                                      kill_keybind |-> kill_keybind,
                                      config_process |-> config_process,
                                      socket_token |-> socket_token]]
    /\ UNCHANGED <<stream, accepted, lastAcceptVia, shutdownCalls, released, callsAtRelease,
                   aborted, sources, socket_token, reload_keybind,
                   kill_keybind, config_process, running, spawned>>
    /\ UNCHANGED <<cmdQueue, lastShutdown>>
    /\ UNCHANGED <<channelVars, deviceVars, schedVars, layoutVars, startVars>>

\* lines 237-240: kill the old config; a failure is only logged
RestartKill ==
    /\ ~aborted /\ rpc = "kill"
    /\ \E outcome \in {"ok", "err"} :
          /\ running' = IF outcome = "ok" THEN running \ {config_process}
                        ELSE running
          /\ ret' = [ret EXCEPT !.kill = outcome,
                                 !.steps = Append(@, "kill")]
          /\ rpc' = AfterKill(outcome)
    /\ UNCHANGED <<stream, accepted, lastAcceptVia, shutdownCalls, released, callsAtRelease,
                   aborted, sources, socket_token, tags, tagIdCounter,
                   keybinds, mousebinds, window_rules, reload_keybind,
                   kill_keybind, config_process, spawned, restarts>>
    /\ UNCHANGED <<cmdQueue, lastShutdown>>
    /\ UNCHANGED <<channelVars, deviceVars, schedVars, layoutVars, startVars>>

\* line 242: loop_handle.remove(socket_token)
RestartRemoveSource ==
    /\ ~aborted /\ rpc = "remove"
    /\ sources' = Remove(sources, socket_token)
    /\ ret' = [ret EXCEPT !.steps = Append(@, "remove")]
    /\ rpc' = Following("remove")
    /\ UNCHANGED <<stream, accepted, lastAcceptVia, shutdownCalls, released, callsAtRelease,
                   aborted, socket_token, tags, tagIdCounter, keybinds,
                   mousebinds, window_rules, reload_keybind, kill_keybind,
                   config_process, running, spawned, restarts>>
    /\ UNCHANGED <<cmdQueue, lastShutdown>>
    /\ UNCHANGED <<channelVars, deviceVars, schedVars, layoutVars, startVars>>

\* how start_config can end: Ok, an Err from parse, from resolving
\* socket_dir or from creating the socket source, or the spawn's panic
StartConfigOutcomes ==
    {"ok", "parse_err", "socket_dir_err", "socket_err", "spawn_panic"}

\* lines 244-249: start_config(tx_channel)?
RestartStartConfig ==
    /\ ~aborted /\ rpc = "start"
    /\ \E outcome \in StartConfigOutcomes :
          /\ spawned' = IF outcome = "ok" THEN spawned + 1 ELSE spawned
          /\ running' = IF outcome = "ok" THEN running \cup {spawned + 1}
                        ELSE running
          /\ ret' = IF outcome = "ok"
                      THEN [ret EXCEPT !.child = spawned + 1, !.source = TRUE,
                                       !.steps = Append(@, "start")]
                      ELSE [ret EXCEPT !.steps = Append(@, "start")]
          /\ aborted' = (outcome = "spawn_panic")
          /\ rpc' = IF outcome = "ok" THEN Following("start") ELSE "ret_err"
    /\ UNCHANGED <<stream, accepted, lastAcceptVia, shutdownCalls, released, callsAtRelease,
                   sources, socket_token, tags, tagIdCounter, keybinds,
                   mousebinds, window_rules, reload_keybind, kill_keybind,
                   config_process, restarts>>
    /\ UNCHANGED <<cmdQueue, lastShutdown>>
    /\ UNCHANGED <<channelVars, deviceVars, schedVars, layoutVars, startVars>>

\* lines 251-266: insert_source(socket_source, callback)?
RestartInsertSource ==
    /\ ~aborted /\ rpc = "insert"
    /\ \E outcome \in {"ok", "err"} :
          /\ sources' = IF outcome = "ok"
                          THEN (restarts + 1) :> "restart" @@ sources
                          ELSE sources
          /\ rpc' = IF outcome = "ok" THEN Following("insert") ELSE "ret_err"
    /\ ret' = [ret EXCEPT !.steps = Append(@, "insert")]
    /\ UNCHANGED <<stream, accepted, lastAcceptVia, shutdownCalls, released, callsAtRelease,
                   aborted, socket_token, tags, tagIdCounter, keybinds,
                   mousebinds, window_rules, reload_keybind, kill_keybind,
                   config_process, running, spawned, restarts>>
    /\ UNCHANGED <<cmdQueue, lastShutdown>>
    /\ UNCHANGED <<channelVars, deviceVars, schedVars, layoutVars, startVars>>

\* lines 268-273: install the keybinds, the child handle and the token
RestartInstall ==
    /\ ~aborted /\ rpc = "install"
    /\ reload_keybind' = restarts
    /\ kill_keybind' = restarts
    /\ config_process' = ret.child
    /\ socket_token' = restarts + 1
    /\ ret' = [ret EXCEPT !.steps = Append(@, "install")]
    /\ rpc' = Following("install")
    /\ UNCHANGED <<stream, accepted, lastAcceptVia, shutdownCalls, released, callsAtRelease,
                   aborted, sources, tags, tagIdCounter, keybinds, mousebinds,
                   window_rules, running, spawned, restarts>>
    /\ UNCHANGED <<cmdQueue, lastShutdown>>
    /\ UNCHANGED <<channelVars, deviceVars, schedVars, layoutVars, startVars>>

\* restart_config has returned (Ok or Err); the reactor goes on
RestartReturn ==
    /\ ~aborted /\ rpc \in {"ret_ok", "ret_err"}
    /\ rpc' = "idle"
    /\ ret' = NoRet
    /\ UNCHANGED <<stream, accepted, lastAcceptVia, shutdownCalls, released, callsAtRelease,
                   aborted, sources, socket_token, tags, tagIdCounter,
                   keybinds, mousebinds, window_rules, reload_keybind,
                   kill_keybind, config_process, running, spawned, restarts>>
    /\ UNCHANGED <<cmdQueue, lastShutdown>>
    /\ UNCHANGED <<channelVars, deviceVars, schedVars, layoutVars, startVars>>

\* ------------------------------------------------------ initial state
\* After State::init: the control-socket source is registered, no client
\* has connected, the first config child runs, nothing is registered yet.
InitConfig ==
    /\ stream = 0
    /\ accepted = 0
    /\ lastAcceptVia = "none"
    /\ shutdownCalls = [t \in Transports |-> 0]
    /\ released = {}
    /\ callsAtRelease = [t \in Transports |-> 0]
    /\ aborted = FALSE
    /\ sources = (1 :> "init")
    /\ socket_token = 1
    /\ tags = [o \in Outputs |-> {}]
    /\ tagIdCounter = TagIdInitial
    /\ keybinds = {}
    /\ mousebinds = {}
    /\ window_rules = {}
    /\ reload_keybind = 0
    /\ kill_keybind = 0
    /\ config_process = 1
    /\ running = {1}
    /\ spawned = 1
    /\ restarts = 0
    /\ rpc = "idle"
    /\ ret = NoRet
    /\ cmdQueue = <<>>
    /\ lastShutdown = "none"

\* ============================================================ start_config
\* A command is a string: a sequence of characters.  An env value is a
\* sequence of parts, each a literal character or a reference $NAME.
Chars == {"a", " ", "\t"}
EnvVars == {"A", "B"}
EnvKeys == {"K1"}
Lit(c) == [ref |-> FALSE, name |-> c]
Ref(v) == [ref |-> TRUE, name |-> v]
Parts == {Lit("x")} \cup {Ref(v) : v \in EnvVars}
Strings(S, n) == UNION {[1..k -> S] : k \in 0..n}
\* what the envs table has under a key: nothing, a string, or a toml value
\* of another type
Missing == [kind |-> "missing", parts |-> <<>>]
EnvValues ==
    {Missing, [kind |-> "nonstring", parts |-> <<>>]}
       \cup {[kind |-> "string", parts |-> str] : str \in Strings(Parts, MaxParts)}
\* Metaconfig.envs: None, or Some(table)
NoTable == [some |-> FALSE, table |-> [k \in EnvKeys |-> Missing]]
EnvTables ==
    {NoTable} \cup {[some |-> TRUE, table |-> t] : t \in [EnvKeys -> EnvValues]}
\* Metaconfig.socket_dir: None, or a relative or an absolute path
NoSocketDir == [some |-> FALSE, absolute |-> FALSE, name |-> "none"]
SocketDirs == {NoSocketDir,
               [some |-> TRUE, absolute |-> FALSE, name |-> "socket"],
               [some |-> TRUE, absolute |-> TRUE, name |-> "socket"]}
Metaconfigs == [command : Strings(Chars, MaxCmdLen), envs : EnvTables,
                socket_dir : SocketDirs]
NoMetaconfig == [command |-> <<>>, envs |-> NoTable,
                 socket_dir |-> NoSocketDir]

\* directories: the one the core was started in and the config directory
StartDir == "start_dir"
ConfigDir == "config_dir"
\* a canonical path: the directory it lies in ("/" for an absolute one) and
\* its name
NoDir == [base |-> "none", name |-> "none"]
NoRuntimeDir == [some |-> FALSE, dir |-> NoDir]
RuntimeDirs == {NoRuntimeDir,
                [some |-> TRUE, dir |-> [base |-> "/", name |-> "runtime"]]}
DEFAULT_SOCKET_DIR == [base |-> "/", name |-> "tmp"]

\* PathBuf::from(path).canonicalize() with the working directory dir: a
\* relative path is resolved against the working directory
Canonicalize(path, dir) ==
    [base |-> IF path.absolute THEN "/" ELSE dir, name |-> path.name]

\* C27 mutant: the runtime directory is used whenever it exists
SocketDirRuntimeFirst(socket_dir, dir, runtime) ==
    IF runtime.some THEN runtime.dir
    ELSE IF socket_dir.some THEN Canonicalize(socket_dir, dir)
    ELSE DEFAULT_SOCKET_DIR

\* lines 134-149: the value of socket_dir when no call fails; dir is the
\* working directory canonicalize runs in
SocketDir(socket_dir, dir, runtime) ==
    IF socket_dir.some THEN Canonicalize(socket_dir, dir)
    ELSE IF runtime.some THEN runtime.dir
    ELSE DEFAULT_SOCKET_DIR
\* an environment variable of the core: unset, or set to a value
Unset == [set |-> FALSE, value |-> <<>>]
ProcessEnvs == [EnvVars -> {Unset, [set |-> TRUE, value |-> <<"v">>]}]
NoSpawn == [program |-> <<>>, args |-> <<>>, envs |-> <<>>]

\* str::split(' '): the pieces between single space characters; an empty
\* string has one piece, the empty string
Split(str) ==
    LET RECURSIVE go(_, _, _)
        go(i, piece, pieces) ==
            IF i > Len(str) THEN Append(pieces, piece)
            ELSE IF str[i] = " " THEN go(i + 1, <<>>, Append(pieces, piece))
            ELSE go(i + 1, Append(piece, str[i]), pieces)
    IN go(1, <<>>, <<>>)

\* C13 mutant: a reference to an unset variable is a lookup error
LookupStrict(env, v) ==
    IF env[v].set THEN [ok |-> TRUE, value |-> env[v].value]
    ELSE [ok |-> FALSE, value |-> <<>>]

\* |var| Ok(Some(std::env::var(var).unwrap_or("".to_string())))
Lookup(env, v) ==
    [ok |-> TRUE, value |-> IF env[v].set THEN env[v].value ELSE <<>>]

\* shellexpand::full_with_context(&string, .., lookup): every reference is
\* replaced by what the lookup returns; a lookup error is the result
Expand(str, env) ==
    LET RECURSIVE go(_, _)
        go(i, out) ==
            IF i > Len(str) THEN [ok |-> TRUE, value |-> out]
            ELSE IF str[i].ref
                   THEN LET r == Lookup(env, str[i].name)
                        IN IF r.ok THEN go(i + 1, out \o r.value)
                           ELSE [ok |-> FALSE, value |-> <<>>]
            ELSE go(i + 1, Append(out, str[i].name))
    IN go(1, <<>>)

\* lines 165-186: the entries with a string value whose expansion is Ok,
\* each with its expanded value
ChildEnvs(envs, env) ==
    LET t == envs.table    \* unwrap_or(Map::new()): None has no entries
        kept == {k \in EnvKeys :
                    /\ t[k].kind = "string"
                    /\ Expand(t[k].parts, env).ok}
    IN [k \in kept |-> Expand(t[k].parts, env).value]

\* line 131: parse(&config_dir)?, read with the environment as it is
StartParse ==
    /\ scPc = "parse"
    /\ \/ \E m \in Metaconfigs :
          \E env \in ProcessEnvs :
             /\ metaconfig' = m
             /\ processEnv' = env
             /\ scPc' = "socket_dir"
             /\ UNCHANGED scResult
       \/ /\ scPc' = "returned"
          /\ scResult' = "parse_err"
          /\ UNCHANGED <<metaconfig, processEnv>>
    /\ UNCHANGED <<scSpawn, cwd, runtimeDir, socketDir>>
    /\ UNCHANGED <<configVars, channelVars, deviceVars, schedVars, layoutVars>>

\* lines 134-149: choose the socket directory.  With a socket_dir in the
\* metaconfig: current_dir()?, set_current_dir(&config_dir)?,
\* canonicalize()?, set_current_dir(current_dir)?; each can fail and `?`
\* returns at once.  Without one no call can fail.
StartSocketDir ==
    /\ scPc = "socket_dir"
    /\ \E runtime \in RuntimeDirs :
       \E failed \in {"none", "current_dir", "set_current_dir", "canonicalize",
                      "restore"} :
          /\ ~metaconfig.socket_dir.some => failed = "none"
          /\ runtimeDir' = runtime
          /\ cwd' = IF failed \in {"canonicalize", "restore"}
                      THEN ConfigDir    \* changed at 139, not changed back
                      ELSE cwd
          /\ IF failed = "none"
               THEN /\ socketDir' = SocketDir(metaconfig.socket_dir, ConfigDir,
                                              runtime)
                    /\ scPc' = "socket"
                    /\ UNCHANGED scResult
               ELSE /\ scPc' = "returned"
                    /\ scResult' = "socket_dir_err"
                    /\ UNCHANGED socketDir
    /\ UNCHANGED <<metaconfig, processEnv, scSpawn>>
    /\ UNCHANGED <<configVars, channelVars, deviceVars, schedVars, layoutVars>>

\* lines 151-152: PinnacleSocketSource::new(tx_channel, &socket_dir)
\*     .context("Failed to create socket source")?
StartSocketSource ==
    /\ scPc = "socket"
    /\ \E outcome \in {"ok", "socket_err"} :
          IF outcome = "ok"
            THEN scPc' = "spawn" /\ UNCHANGED scResult
            ELSE scPc' = "returned" /\ scResult' = outcome
    /\ UNCHANGED <<metaconfig, processEnv, scSpawn, cwd, runtimeDir, socketDir>>
    /\ UNCHANGED <<configVars, channelVars, deviceVars, schedVars, layoutVars>>

\* lines 157-211: split the command, expand the envs, spawn the child.
\* Spawning can fail for any program and does for the empty one; the
\* failure panics (expect).
StartSpawn ==
    /\ scPc = "spawn"
    /\ LET command == Split(metaconfig.command) IN
          IF command = <<>>
            THEN /\ scResult' = "command_empty_err"
                 /\ UNCHANGED scSpawn
            ELSE /\ scSpawn' = [program |-> Head(command),
                                args |-> Tail(command),
                                envs |-> ChildEnvs(metaconfig.envs, processEnv)]
                 /\ \E spawned_ok \in BOOLEAN :
                       /\ Head(command) = <<>> => ~spawned_ok
                       /\ scResult' = IF spawned_ok THEN "ok"
                                      ELSE "spawn_panic"
    /\ scPc' = "returned"
    /\ UNCHANGED <<metaconfig, processEnv, cwd, runtimeDir, socketDir>>
    /\ UNCHANGED <<configVars, channelVars, deviceVars, schedVars, layoutVars>>

InitStart ==
    /\ scPc = "parse"
    /\ metaconfig = NoMetaconfig
    /\ processEnv = [v \in EnvVars |-> Unset]
    /\ scSpawn = NoSpawn
    /\ scResult = "none"
    /\ cwd = StartDir
    /\ runtimeDir = NoRuntimeDir
    /\ socketDir = NoDir

\* ========================================================= command channel
Producers == 1..NumProducers

\* the commands of a sequence that producer p submitted
OfProducer(seq, p) ==
    LET from(c) == c[1] = p IN SelectSeq(seq, from)

SumSent == LET RECURSIVE sum(_)
               sum(n) == IF n = 0 THEN 0 ELSE sent[n] + sum(n - 1)
           IN sum(NumProducers)

\* Sender::send: the command joins the back of the channel's queue
Send(q, cmd) == Append(q, cmd)

\* C2 mutant: the receiver takes the newest command first
TryRecvNewest(q) ==
    [msg |-> q[Len(q)], rest |-> SubSeq(q, 1, Len(q) - 1)]

\* the receiver takes the oldest queued command
TryRecv(q) == [msg |-> Head(q), rest |-> Tail(q)]

\* C3 mutant: registering the receiver discards what was sent before
InsertRxSourceDropsBuffered(q) == <<>>

\* insert_source(rx_channel, ..): what was sent before stays queued
InsertRxSource(q) == q

\* C21 mutant: the closure is reported as soon as the senders are gone
DisconnectedIgnoresQueue(q, open) == ~open

\* try_recv returns Disconnected: nothing is queued and no sender is left
Disconnected(q, open) == q = <<>> /\ ~open

\* A producer (any thread holding a sender) submits its next command.
Submit(p) ==
    /\ chanOpen /\ ~chanAborted
    /\ SumSent < MaxSubmits
    /\ sent' = [sent EXCEPT ![p] = @ + 1]
    /\ queue' = Send(queue, <<p, sent[p] + 1>>)
    /\ early' = IF rxRegistered THEN early ELSE early \cup {<<p, sent[p] + 1>>}
    /\ UNCHANGED <<chanPc, chanOpen, rxRegistered, idlePending, phase,
                   executed, chanAborted>>
    /\ UNCHANGED <<configVars, deviceVars, schedVars, layoutVars, startVars>>

\* The last sender is dropped.
CloseChannel ==
    /\ chanOpen /\ ~chanAborted
    /\ chanOpen' = FALSE
    /\ UNCHANGED <<chanPc, queue, rxRegistered, idlePending, phase, executed,
                   sent, early, chanAborted>>
    /\ UNCHANGED <<configVars, deviceVars, schedVars, layoutVars, startVars>>

\* State::init line 243: start_config()
InitStartConfig ==
    /\ chanPc = "channel_created"
    /\ chanPc' = "config_started"
    /\ UNCHANGED <<queue, chanOpen, rxRegistered, idlePending, phase,
                   executed, sent, early, chanAborted>>
    /\ UNCHANGED <<configVars, deviceVars, schedVars, layoutVars, startVars>>

\* State::init lines 252-260: queue the idle callback that registers the
\* receiver; init returns and the reactor starts taking turns.
InitInsertIdle ==
    /\ chanPc = "config_started"
    /\ chanPc' = "running"
    /\ idlePending' = TRUE
    /\ UNCHANGED <<queue, chanOpen, rxRegistered, phase, executed, sent,
                   early, chanAborted>>
    /\ UNCHANGED <<configVars, deviceVars, schedVars, layoutVars, startVars>>

\* The receiver's source is ready: Event::Msg(msg) => handle_msg(msg).
RecvMsg ==
    /\ chanPc = "running" /\ ~chanAborted
    /\ phase = "events" /\ rxRegistered
    /\ queue # <<>>
    /\ LET r == TryRecv(queue) IN
          /\ queue' = r.rest
          /\ executed' = Append(executed, r.msg)
    /\ UNCHANGED <<chanPc, chanOpen, rxRegistered, idlePending, phase, sent,
                   early, chanAborted>>
    /\ UNCHANGED <<configVars, deviceVars, schedVars, layoutVars, startVars>>

\* The queue is empty and every sender is gone: Event::Closed => todo!().
RecvClosed ==
    /\ chanPc = "running" /\ ~chanAborted
    /\ phase = "events" /\ rxRegistered
    /\ Disconnected(queue, chanOpen)
    /\ chanAborted' = TRUE
    /\ UNCHANGED <<chanPc, queue, chanOpen, rxRegistered, idlePending, phase,
                   executed, sent, early>>
    /\ UNCHANGED <<configVars, deviceVars, schedVars, layoutVars, startVars>>

\* Nothing more to receive in this turn: the reactor turns to its idles.
EventsDone ==
    /\ chanPc = "running" /\ ~chanAborted
    /\ phase = "events"
    /\ ~rxRegistered \/ (queue = <<>> /\ chanOpen)
    /\ phase' = "idles"
    /\ UNCHANGED <<chanPc, queue, chanOpen, rxRegistered, idlePending,
                   executed, sent, early, chanAborted>>
    /\ UNCHANGED <<configVars, deviceVars, schedVars, layoutVars, startVars>>

\* The reactor runs the queued idle callbacks: init's registers the receiver.
DispatchIdles ==
    /\ chanPc = "running" /\ ~chanAborted
    /\ phase = "idles"
    /\ phase' = "events"
    /\ IF idlePending
         THEN /\ rxRegistered' = TRUE
              /\ queue' = InsertRxSource(queue)
              /\ idlePending' = FALSE
         ELSE UNCHANGED <<rxRegistered, queue, idlePending>>
    /\ UNCHANGED <<chanPc, chanOpen, executed, sent, early, chanAborted>>
    /\ UNCHANGED <<configVars, deviceVars, schedVars, layoutVars, startVars>>

\* After line 208: the channel exists, nothing was sent.
InitChannel ==
    /\ chanPc = "channel_created"
    /\ queue = <<>>
    /\ chanOpen = TRUE
    /\ rxRegistered = FALSE
    /\ idlePending = FALSE
    /\ phase = "events"
    /\ executed = <<>>
    /\ sent = [p \in Producers |-> 0]
    /\ early = {}
    /\ chanAborted = FALSE

\* ================================================ libinput device settings
Devices == {"mouse", "touchpad"}
Categories == {"accel_profile", "tap"}

\* A filter is the set of devices it matches; an entry of a category is a
\* filter, its setting function is named by the category and its position.
Filters == SUBSET Devices
SeqsUpTo(S, n) == UNION {[1..k -> S] : k \in 0..n}

\* filter.matches_device(&device)
MatchesDevice(filter, d) == d \in filter

\* C5 mutant: the configured-device check is missing
NeverContains(devs, d) == FALSE

\* C25 mutant: only the newest entry of the list is compared
ContainsLast(devs, d) == devs # <<>> /\ devs[Len(devs)] = d

\* self.input_state.libinput_devices.contains(&device)
Contains(devs, d) == \E i \in 1..Len(devs) : devs[i] = d

\* C10 mutant: device-removed leaves the list as it is
RetainNothingRemoved(devs, d) == devs

\* libinput_devices.retain(|dev| dev != device)
Retain(devs, d) == LET keep(x) == x # d IN SelectSeq(devs, keep)

\* C6 mutant: the entries are scanned oldest first
FirstMatchForward(entries, d) ==
    LET hits == {i \in 1..Len(entries) : MatchesDevice(entries[i], d)} IN
    IF hits = {} THEN 0 ELSE CHOOSE i \in hits : \A j \in hits : i <= j

\* for (filter, setting) in settings.iter().rev() { if matches { ..; break } }
\* the entry whose setting is applied, 0 when no filter matches
FirstMatchRev(entries, d) ==
    LET RECURSIVE scan(_)
        scan(i) == IF i = 0 THEN 0
                   ELSE IF MatchesDevice(entries[i], d) THEN i
                   ELSE scan(i - 1)
    IN scan(Len(entries))

\* the settings one pass over all categories applies to d
AppliedTo(d) ==
    {<<c, FirstMatchRev(libinput_settings[c], d)>> : c \in Categories}
        \ (Categories \X {0})

\* Pinnacle::apply_libinput_settings(event)
ApplyLibinputSettings(ev) ==
    /\ lastEvent' = ev
    /\ lastAdded' = IF ev.kind \in {"added", "removed"}
                      THEN [lastAdded EXCEPT ![ev.device] = ev.kind = "added"]
                      ELSE lastAdded
    /\ UNCHANGED libinput_settings
    /\ IF ev.kind = "removed"
         THEN /\ libinput_devices' = Retain(libinput_devices, ev.device)
              /\ removals' = IF libinput_devices' # libinput_devices
                               THEN [removals EXCEPT ![ev.device] = @ + 1]
                               ELSE removals
              /\ lastApplied' = {}
              /\ UNCHANGED <<applications, connects>>
         ELSE IF ev.kind # "added" \/ Contains(libinput_devices, ev.device)
         THEN /\ lastApplied' = {}
              /\ UNCHANGED <<libinput_devices, applications, connects, removals>>
         ELSE /\ lastApplied' = AppliedTo(ev.device)
              /\ applications' =
                    [applications EXCEPT ![ev.device] =
                        [c \in Categories |->
                            IF \E i \in 1..MaxEntries + 1 : <<c, i>> \in lastApplied'
                              THEN @[c] + 1 ELSE @[c]]]
              /\ libinput_devices' = Append(libinput_devices, ev.device)
              /\ connects' = [connects EXCEPT ![ev.device] = @ + 1]
              /\ UNCHANGED removals

DeviceAdded(d) ==
    /\ connects[d] < MaxConnects \/ Contains(libinput_devices, d)
    /\ ApplyLibinputSettings([kind |-> "added", device |-> d])
    /\ UNCHANGED <<configVars, channelVars, schedVars, layoutVars, startVars>>

DeviceRemoved(d) ==
    /\ ApplyLibinputSettings([kind |-> "removed", device |-> d])
    /\ UNCHANGED <<configVars, channelVars, schedVars, layoutVars, startVars>>

\* any other input event: nothing is done
OtherEvent ==
    /\ ApplyLibinputSettings([kind |-> "other", device |-> "none"])
    /\ UNCHANGED <<configVars, channelVars, schedVars, layoutVars, startVars>>

\* No device is configured; the registry is whatever the config registered.
InitDevices(settings) ==
    /\ libinput_devices = <<>>
    /\ libinput_settings \in settings
    /\ lastEvent = [kind |-> "none", device |-> "none"]
    /\ lastApplied = {}
    /\ applications = [d \in Devices |-> [c \in Categories |-> 0]]
    /\ connects = [d \in Devices |-> 0]
    /\ removals = [d \in Devices |-> 0]
    /\ lastAdded = [d \in Devices |-> FALSE]

\* ======================================================= deferred scheduler
Jobs == 1..NumJobs
NoQueued == [turn |-> 0, phase |-> "none"]
NoRecheck == [queued |-> NoQueued, ranTurn |-> 0]

\* The predicate of call j: false during the K turns that start with the
\* turn of the call (at turn ct), true from then on.
Condition(t, ct, k) == t >= ct + k

\* C22 mutant: a failing check queues the re-check twice
ScheduleQueuesTwice(j, ct, k) ==
    IF ~Condition(turn, ct, k)
      THEN /\ idles' = Append(Append(idles, j), j)
           /\ everQueued' = [everQueued EXCEPT ![j] = TRUE]
           /\ jobState' = [jobState EXCEPT ![j] = "waiting"]
           /\ UNCHANGED <<runs, runTurn>>
      ELSE /\ runs' = [runs EXCEPT ![j] = @ + 1]
           /\ runTurn' = [runTurn EXCEPT ![j] = turn]
           /\ jobState' = [jobState EXCEPT ![j] = "done"]
           /\ UNCHANGED <<idles, everQueued>>

\* C7 mutant: the early return is missing, the action runs at every check
ScheduleNoReturn(j, ct, k) ==
    /\ idles' = IF ~Condition(turn, ct, k) THEN Append(idles, j) ELSE idles
    /\ everQueued' = IF ~Condition(turn, ct, k)
                       THEN [everQueued EXCEPT ![j] = TRUE] ELSE everQueued
    /\ runs' = [runs EXCEPT ![j] = IF @ < 2 THEN @ + 1 ELSE @]
    /\ runTurn' = [runTurn EXCEPT ![j] = turn]
    /\ jobState' = [jobState EXCEPT ![j] =
                       IF Condition(turn, ct, k) THEN "done" ELSE "waiting"]

\* schedule(data, condition, run): when the condition fails queue an idle
\* callback that calls schedule again and return; otherwise run the action.
Schedule(j, ct, k) ==
    IF ~Condition(turn, ct, k)
      THEN /\ idles' = Append(idles, j)
           /\ everQueued' = [everQueued EXCEPT ![j] = TRUE]
           /\ jobState' = [jobState EXCEPT ![j] = "waiting"]
           /\ UNCHANGED <<runs, runTurn>>
      ELSE /\ runs' = [runs EXCEPT ![j] = @ + 1]
           /\ runTurn' = [runTurn EXCEPT ![j] = turn]
           /\ jobState' = [jobState EXCEPT ![j] = "done"]
           /\ UNCHANGED <<idles, everQueued>>

\* Some callback of the current turn (an event handler, or an idle callback
\* between two others) calls schedule with a predicate that is false for k
\* turns.
CallSchedule(j, k) ==
    /\ jobState[j] = "uncalled"
    /\ callTurn' = [callTurn EXCEPT ![j] = turn]
    /\ jobK' = [jobK EXCEPT ![j] = k]
    /\ Schedule(j, turn, k)
    /\ evals' = [evals EXCEPT ![j] = @ + 1]
    /\ queuedAt' = IF idles' # idles
                     THEN [queuedAt EXCEPT ![j] =
                              [turn |-> turn, phase |-> schedPhase]]
                     ELSE queuedAt
    /\ UNCHANGED <<turn, schedPhase, runningIdles, recheck, commitVars>>
    /\ UNCHANGED <<configVars, channelVars, deviceVars, layoutVars, startVars>>

\* dispatch_idles: the reactor takes the idle list once the events are done
BeginIdles ==
    /\ schedPhase = "events"
    /\ schedPhase' = "idles"
    /\ runningIdles' = idles
    /\ idles' = <<>>
    /\ UNCHANGED <<turn, jobState, jobK, callTurn, runTurn, runs, everQueued,
                   evals, queuedAt, recheck, commitVars>>
    /\ UNCHANGED <<configVars, channelVars, deviceVars, layoutVars, startVars>>

\* .. and runs each callback it took: the closure calls schedule again
RunIdle ==
    /\ schedPhase = "idles"
    /\ runningIdles # <<>>
    /\ Head(runningIdles) \in Jobs
    /\ LET j == Head(runningIdles) IN
          /\ Schedule(j, callTurn[j], jobK[j])
          /\ evals' = [evals EXCEPT ![j] = @ + 1]
          /\ recheck' = [recheck EXCEPT ![j] =
                            [queued |-> queuedAt[j], ranTurn |-> turn]]
          /\ queuedAt' = IF idles' # idles
                           THEN [queuedAt EXCEPT ![j] =
                                    [turn |-> turn, phase |-> schedPhase]]
                           ELSE queuedAt
    /\ runningIdles' = Tail(runningIdles)
    /\ UNCHANGED <<turn, schedPhase, jobK, callTurn, commitVars>>
    /\ UNCHANGED <<configVars, channelVars, deviceVars, layoutVars, startVars>>

\* the dispatch returns; the next turn begins
EndTurn ==
    /\ schedPhase = "idles"
    /\ runningIdles = <<>>
    /\ turn < MaxTurns
    /\ turn' = turn + 1
    /\ schedPhase' = "events"
    /\ evals' = [j \in Jobs |-> 0]
    /\ UNCHANGED <<idles, runningIdles, jobState, jobK, callTurn, runTurn,
                   runs, everQueued, queuedAt, recheck, commitVars>>
    /\ UNCHANGED <<configVars, channelVars, deviceVars, layoutVars, startVars>>

\* ------------------------------------------------------- schedule_on_commit
Windows == 1..NumWindows

\* the idle-list entry of the closure that calls schedule_on_commit again
CommitIdle == 0

\* loc_request_state is matched against Idle only: every other state of the
\* enum is "Sent" here
LocationRequestStates == {"Idle", "Sent"}

NoCheck == [turn |-> 0, alive |-> {}, idle |-> {}, ran |-> FALSE,
            queued |-> FALSE]

\* C23 mutant: the alive() filter is missing
ScheduleOnCommitAnyWindow(windows) ==
    IF \E w \in windows : locRequestState[w] # "Idle"
      THEN /\ idles' = Append(idles, CommitIdle)
           /\ commitState' = "waiting"
           /\ UNCHANGED commitRuns
      ELSE /\ commitRuns' = commitRuns + 1
           /\ commitState' = "done"
           /\ UNCHANGED idles

\* schedule_on_commit(data, windows, on_commit): when some alive window of
\* the set is not Idle queue an idle callback that calls schedule_on_commit
\* again and return; otherwise run on_commit.
ScheduleOnCommit(windows) ==
    IF \E w \in windows : windowAlive[w] /\ locRequestState[w] # "Idle"
      THEN /\ idles' = Append(idles, CommitIdle)
           /\ commitState' = "waiting"
           /\ UNCHANGED commitRuns
      ELSE /\ commitRuns' = commitRuns + 1
           /\ commitState' = "done"
           /\ UNCHANGED idles

\* what a check saw and did
Checked ==
    commitCheck' = [turn |-> turn,
                    alive |-> {w \in Windows : windowAlive[w]},
                    idle |-> {w \in Windows : locRequestState[w] = "Idle"},
                    ran |-> commitRuns' # commitRuns,
                    queued |-> idles' # idles]

\* Some callback of the current turn calls schedule_on_commit with a set of
\* windows.
CallScheduleOnCommit(windows) ==
    /\ commitState = "uncalled"
    /\ commitWindows' = windows
    /\ ScheduleOnCommit(windows)
    /\ Checked
    /\ commitQueuedAt' = IF idles' # idles
                           THEN [turn |-> turn, phase |-> schedPhase]
                           ELSE commitQueuedAt
    /\ UNCHANGED <<turn, schedPhase, runningIdles, jobState, jobK, callTurn,
                   runTurn, runs, everQueued, evals, queuedAt, recheck,
                   windowAlive, locRequestState, commitRecheck>>
    /\ UNCHANGED <<configVars, channelVars, deviceVars, layoutVars, startVars>>

\* the idle callback the reactor took calls schedule_on_commit again
RunCommitIdle ==
    /\ schedPhase = "idles"
    /\ runningIdles # <<>>
    /\ Head(runningIdles) = CommitIdle
    /\ ScheduleOnCommit(commitWindows)
    /\ Checked
    /\ commitRecheck' = [queued |-> commitQueuedAt, ranTurn |-> turn]
    /\ commitQueuedAt' = IF idles' # idles
                           THEN [turn |-> turn, phase |-> schedPhase]
                           ELSE commitQueuedAt
    /\ runningIdles' = Tail(runningIdles)
    /\ UNCHANGED <<turn, schedPhase, jobState, jobK, callTurn, runTurn, runs,
                   everQueued, evals, queuedAt, recheck, windowAlive,
                   locRequestState, commitWindows>>
    /\ UNCHANGED <<configVars, channelVars, deviceVars, layoutVars, startVars>>

\* a new location is requested of an alive window
WindowRequest(w) ==
    /\ windowAlive[w]
    /\ locRequestState[w] = "Idle"
    /\ locRequestState' = [locRequestState EXCEPT ![w] = "Sent"]
    /\ UNCHANGED <<turn, schedPhase, idles, runningIdles, jobState, jobK,
                   callTurn, runTurn, runs, everQueued, evals, queuedAt,
                   recheck, windowAlive, commitState, commitWindows,
                   commitRuns, commitCheck, commitQueuedAt, commitRecheck>>
    /\ UNCHANGED <<configVars, channelVars, deviceVars, layoutVars, startVars>>

\* the window's surface commits the requested location
WindowCommit(w) ==
    /\ windowAlive[w]
    /\ locRequestState[w] # "Idle"
    /\ locRequestState' = [locRequestState EXCEPT ![w] = "Idle"]
    /\ UNCHANGED <<turn, schedPhase, idles, runningIdles, jobState, jobK,
                   callTurn, runTurn, runs, everQueued, evals, queuedAt,
                   recheck, windowAlive, commitState, commitWindows,
                   commitRuns, commitCheck, commitQueuedAt, commitRecheck>>
    /\ UNCHANGED <<configVars, channelVars, deviceVars, layoutVars, startVars>>

\* the window's surface is destroyed, whatever its request state
WindowDestroyed(w) ==
    /\ windowAlive[w]
    /\ windowAlive' = [windowAlive EXCEPT ![w] = FALSE]
    /\ UNCHANGED <<turn, schedPhase, idles, runningIdles, jobState, jobK,
                   callTurn, runTurn, runs, everQueued, evals, queuedAt,
                   recheck, locRequestState, commitState, commitWindows,
                   commitRuns, commitCheck, commitQueuedAt, commitRecheck>>
    /\ UNCHANGED <<configVars, channelVars, deviceVars, layoutVars, startVars>>

InitCommit ==
    /\ windowAlive = [w \in Windows |-> TRUE]
    /\ locRequestState = [w \in Windows |-> "Idle"]
    /\ commitState = "uncalled"
    /\ commitWindows = {}
    /\ commitRuns = 0
    /\ commitCheck = NoCheck
    /\ commitQueuedAt = NoQueued
    /\ commitRecheck = NoRecheck


InitSched ==
    /\ turn = 1
    /\ schedPhase = "events"
    /\ idles = <<>>
    /\ runningIdles = <<>>
    /\ jobState = [j \in Jobs |-> "uncalled"]
    /\ jobK = [j \in Jobs |-> 0]
    /\ callTurn = [j \in Jobs |-> 0]
    /\ runTurn = [j \in Jobs |-> 0]
    /\ runs = [j \in Jobs |-> 0]
    /\ everQueued = [j \in Jobs |-> FALSE]
    /\ evals = [j \in Jobs |-> 0]
    /\ queuedAt = [j \in Jobs |-> NoQueued]
    /\ recheck = [j \in Jobs |-> NoRecheck]
    /\ InitCommit

\* ============================================================ layout stream
Streams == 1..NumStreams
NoPush == [to |-> 0, closed |-> FALSE]

\* C8 mutant: a sender already installed is kept
OnConnectKeepsFirst(slot, sender) == IF slot = 0 THEN sender ELSE slot

\* |state, sender, _join_handle| layout_request_sender = Some(sender)
OnConnect(slot, sender) == sender

\* the request closure on a stream error: Err(err) => tracing::error!
OnRequestErr(slot) == slot

\* LayoutRequest.body: None, Geometries, or ExplicitLayout { output_name }
\* (name 0 is None)
NoBody == [type |-> "none", name |-> 0]
Bodies == {NoBody, [type |-> "geometries", name |-> 0]}
             \cup {[type |-> "layout", name |-> n] : n \in 0..NumOutputs}
NoRequest == [body |-> NoBody, calls |-> {}, logged |-> FALSE]

\* OutputName(name).output(state): the output of that name, if it exists
OutputByName(name, outs) == IF name \in outs THEN name ELSE 0

\* C12 mutant: a name that does not resolve is not replaced by the focus
ExplicitLayoutOutputNoFallback(name, outs, focused) ==
    IF name = 0 THEN focused ELSE OutputByName(name, outs)

\* output_name.map(OutputName).and_then(|name| name.output(state))
\*     .or_else(|| state.focused_output().cloned())
ExplicitLayoutOutput(name, outs, focused) ==
    LET named == IF name = 0 THEN 0 ELSE OutputByName(name, outs)
    IN IF named # 0 THEN named ELSE focused

\* A client calls LayoutService::layout: run_bidirectional_streaming makes
\* the outbound sender and submits the on-connect closure for it.
LayoutCall(s) ==
    /\ streamState[s] = "unconnected"
    /\ streamState' = [streamState EXCEPT ![s] = "open"]
    /\ fnQueue' = Append(fnQueue, [kind |-> "connect", stream |-> s,
                                   body |-> NoBody, seq |-> 0])
    /\ UNCHANGED <<layout_request_sender, received, connectLog, lastPush>>
    /\ UNCHANGED <<outputsPresent, focusedOutput, requested, lastRequest,
                   executedRequests>>
    /\ UNCHANGED <<configVars, channelVars, deviceVars, schedVars, startVars>>

\* The inbound stream of s fails: the error is submitted as a request
\* closure and the stream is over.
StreamError(s) ==
    /\ streamState[s] = "open"
    /\ streamState' = [streamState EXCEPT ![s] = "closed"]
    /\ fnQueue' = Append(fnQueue, [kind |-> "error", stream |-> s,
                                   body |-> NoBody, seq |-> 0])
    /\ UNCHANGED <<layout_request_sender, received, connectLog, lastPush>>
    /\ UNCHANGED <<outputsPresent, focusedOutput, requested, lastRequest,
                   executedRequests>>
    /\ UNCHANGED <<configVars, channelVars, deviceVars, schedVars, startVars>>

\* The client of s disconnects: the inbound stream ends, nothing is
\* submitted.
ClientDisconnect(s) ==
    /\ streamState[s] = "open"
    /\ streamState' = [streamState EXCEPT ![s] = "closed"]
    /\ UNCHANGED <<layout_request_sender, fnQueue, received, connectLog,
                   lastPush>>
    /\ UNCHANGED <<outputsPresent, focusedOutput, requested, lastRequest,
                   executedRequests>>
    /\ UNCHANGED <<configVars, channelVars, deviceVars, schedVars, startVars>>

\* A client sends a LayoutRequest on its open stream: the item is submitted
\* as a request closure.  At most max requests are sent in all.
ClientRequest(s, body, max) ==
    /\ streamState[s] = "open"
    /\ requested < max
    /\ requested' = requested + 1
    /\ fnQueue' = Append(fnQueue, [kind |-> "request", stream |-> s,
                                   body |-> body, seq |-> requested + 1])
    /\ UNCHANGED <<layout_request_sender, streamState, received, connectLog,
                   lastPush, outputsPresent, focusedOutput, lastRequest,
                   executedRequests>>
    /\ UNCHANGED <<configVars, channelVars, deviceVars, schedVars, startVars>>

\* Outputs come and go and the focus moves between the ones that exist.
OutputConnect(o) ==
    /\ o \notin outputsPresent
    /\ outputsPresent' = outputsPresent \cup {o}
    /\ UNCHANGED <<layout_request_sender, streamState, fnQueue, received,
                   connectLog, lastPush, focusedOutput, requested,
                   lastRequest, executedRequests>>
    /\ UNCHANGED <<configVars, channelVars, deviceVars, schedVars, startVars>>

OutputDisconnect(o) ==
    /\ o \in outputsPresent
    /\ outputsPresent' = outputsPresent \ {o}
    /\ focusedOutput' = IF focusedOutput = o THEN 0 ELSE focusedOutput
    /\ UNCHANGED <<layout_request_sender, streamState, fnQueue, received,
                   connectLog, lastPush, requested, lastRequest,
                   executedRequests>>
    /\ UNCHANGED <<configVars, channelVars, deviceVars, schedVars, startVars>>

FocusOutput(o) ==
    /\ o \in outputsPresent /\ focusedOutput # o
    /\ focusedOutput' = o
    /\ UNCHANGED <<layout_request_sender, streamState, fnQueue, received,
                   connectLog, lastPush, outputsPresent, requested,
                   lastRequest, executedRequests>>
    /\ UNCHANGED <<configVars, channelVars, deviceVars, schedVars, startVars>>

\* C24 mutant: a failing apply_layout is dropped without a log line
OnRequestOkSilent(body, res) ==
    LET target == IF body.type = "layout"
                    THEN ExplicitLayoutOutput(body.name, outputsPresent,
                                              focusedOutput)
                    ELSE 0
    IN lastRequest' = [body |-> body,
                       calls |-> IF target # 0 THEN {target} ELSE {},
                       logged |-> FALSE]

\* The request closure on Ok(request), lines 36-58.  A request without a
\* body does nothing; Geometries applies the layout and logs a failure;
\* ExplicitLayout calls request_layout for the output it resolves to, if any.
\* lastRequest records the request_layout calls made and whether an error
\* was logged; res is what apply_layout returned.
OnRequestOk(body, res) ==
    LET target == IF body.type = "layout"
                    THEN ExplicitLayoutOutput(body.name, outputsPresent,
                                              focusedOutput)
                    ELSE 0
    IN lastRequest' = [body |-> body,
                       calls |-> IF target # 0 THEN {target} ELSE {},
                       logged |-> res = "err"]

\* state.apply_layout(geos) returns Ok or Err; no other arm can fail
ApplyLayoutResults(body) ==
    IF body.type = "geometries" THEN {"ok", "err"} ELSE {"ok"}

\* The state owner runs the oldest submitted closure.
RunStateFn ==
    /\ fnQueue # <<>>
    /\ LET f == Head(fnQueue) IN
          CASE f.kind = "connect" ->
                 /\ layout_request_sender' =
                       OnConnect(layout_request_sender, f.stream)
                 /\ connectLog' = Append(connectLog, f.stream)
                 /\ UNCHANGED <<lastRequest, executedRequests>>
            [] f.kind = "error" ->
                 /\ layout_request_sender' = OnRequestErr(layout_request_sender)
                 /\ UNCHANGED <<connectLog, lastRequest, executedRequests>>
            [] f.kind = "request" ->
                 /\ \E res \in ApplyLayoutResults(f.body) :
                       /\ OnRequestOk(f.body, res)
                       /\ executedRequests' =
                             Append(executedRequests,
                                    [stream |-> f.stream, seq |-> f.seq,
                                     failed |-> res = "err"])
                 /\ UNCHANGED <<layout_request_sender, connectLog>>
    /\ fnQueue' = Tail(fnQueue)
    /\ UNCHANGED <<streamState, received, lastPush, outputsPresent,
                   focusedOutput, requested>>
    /\ UNCHANGED <<configVars, channelVars, deviceVars, schedVars, startVars>>

\* The state owner pushes a layout request to the installed sender, if any.
PushLayout ==
    /\ layout_request_sender # 0
    /\ received[layout_request_sender] < MaxPushes
    /\ received' = [received EXCEPT ![layout_request_sender] = @ + 1]
    /\ lastPush' = [to |-> layout_request_sender,
                    closed |-> streamState[layout_request_sender] = "closed"]
    /\ UNCHANGED <<layout_request_sender, streamState, fnQueue, connectLog>>
    /\ UNCHANGED <<outputsPresent, focusedOutput, requested, lastRequest,
                   executedRequests>>
    /\ UNCHANGED <<configVars, channelVars, deviceVars, schedVars, startVars>>

InitLayout ==
    /\ layout_request_sender = 0
    /\ streamState = [s \in Streams |-> "unconnected"]
    /\ fnQueue = <<>>
    /\ received = [s \in Streams |-> 0]
    /\ connectLog = <<>>
    /\ lastPush = NoPush
    /\ outputsPresent = {}
    /\ focusedOutput = 0
    /\ requested = 0
    /\ lastRequest = NoRequest
    /\ executedRequests = <<>>

\* ========================================================= specifications
vars == <<configVars, channelVars, deviceVars, schedVars, layoutVars,
          startVars>>

\* the registry of a specification that delivers no device events
NoSettings == {[c \in Categories |-> <<>>]}
AllSettings == [Categories -> SeqsUpTo(Filters, MaxEntries)]

InitWith(settings) ==
    /\ InitConfig /\ InitChannel /\ InitDevices(settings)
    /\ InitSched /\ InitLayout /\ InitStart

Init == InitWith(AllSettings)

NextConfig ==
    \/ Accept
    \/ \E o \in Outputs : AddTag(o)
    \/ \E b \in Binds : AddKeybind(b)
    \/ \E b \in Binds : AddMousebind(b)
    \/ \E b \in Binds : AddWindowRule(b)
    \/ \E p \in ConfigChildren : SendCommand(p)
    \/ HandleOtherMsg
    \/ ProcessExit
    \/ RestartClear
    \/ RestartKill
    \/ RestartRemoveSource
    \/ RestartStartConfig
    \/ RestartInsertSource
    \/ RestartInstall
    \/ RestartReturn

\* the steps of the thread that owns the state
OwnerStep ==
    \/ InitStartConfig
    \/ InitInsertIdle
    \/ RecvMsg
    \/ RecvClosed
    \/ EventsDone
    \/ DispatchIdles

NextChannel ==
    \/ \E p \in Producers : Submit(p)
    \/ CloseChannel
    \/ InitStartConfig
    \/ InitInsertIdle
    \/ RecvMsg
    \/ RecvClosed
    \/ EventsDone
    \/ DispatchIdles

NextDevices ==
    \/ \E d \in Devices : DeviceAdded(d)
    \/ \E d \in Devices : DeviceRemoved(d)
    \/ OtherEvent

NextSched ==
    \/ \E j \in Jobs : \E k \in 0..MaxK : CallSchedule(j, k)
    \/ BeginIdles
    \/ RunIdle
    \/ EndTurn

NextCommit ==
    \/ \E ws \in SUBSET Windows : CallScheduleOnCommit(ws)
    \/ BeginIdles
    \/ RunCommitIdle
    \/ EndTurn
    \/ \E w \in Windows : WindowRequest(w)
    \/ \E w \in Windows : WindowCommit(w)
    \/ \E w \in Windows : WindowDestroyed(w)

NextLayout ==
    \/ \E s \in Streams : LayoutCall(s)
    \/ \E s \in Streams : StreamError(s)
    \/ \E s \in Streams : ClientDisconnect(s)
    \/ RunStateFn
    \/ PushLayout

\* the requests of connected layout streams: clients connect and send
\* requests while outputs come and go
NextLayoutRequests ==
    \/ \E s \in Streams : LayoutCall(s)
    \/ \E s \in Streams : \E body \in Bodies : ClientRequest(s, body, MaxRequests)
    \/ \E o \in Outputs : OutputConnect(o)
    \/ \E o \in Outputs : OutputDisconnect(o)
    \/ \E o \in Outputs : FocusOutput(o)
    \/ RunStateFn

\* with no output connected a name in a request makes no difference
UnnamedBodies == {body \in Bodies : body.name = 0}

\* requests enough for one to follow another on the same stream
MaxStreamRequests == MaxRequests + 1

NextLayoutGeometries ==
    \/ \E s \in Streams : LayoutCall(s)
    \/ \E s \in Streams : \E body \in UnnamedBodies :
          ClientRequest(s, body, MaxStreamRequests)
    \/ RunStateFn
    \/ PushLayout

NextStart ==
    \/ StartParse
    \/ StartSocketDir
    \/ StartSocketSource
    \/ StartSpawn

Next ==
    \/ NextConfig \/ NextChannel \/ NextDevices \/ NextSched
    \/ NextLayout \/ NextLayoutRequests \/ NextStart

\* the whole program
Spec == Init /\ [][Next]_vars

\* the components, each on its own
SpecConfig == InitWith(NoSettings) /\ [][NextConfig]_vars

SpecChannel == InitWith(NoSettings) /\ [][NextChannel]_vars

\* the owning thread keeps running: it is never starved of the processor
SpecChannelLive ==
    InitWith(NoSettings) /\ [][NextChannel]_vars /\ WF_vars(OwnerStep)

SpecDevices == InitWith(AllSettings) /\ [][NextDevices]_vars

SpecSched == InitWith(NoSettings) /\ [][NextSched]_vars

SpecCommit == InitWith(NoSettings) /\ [][NextCommit]_vars

SpecLayout == InitWith(NoSettings) /\ [][NextLayout]_vars

SpecLayoutRequests == InitWith(NoSettings) /\ [][NextLayoutRequests]_vars

SpecLayoutGeometries == InitWith(NoSettings) /\ [][NextLayoutGeometries]_vars

SpecStart == InitWith(NoSettings) /\ [][NextStart]_vars

\* ================================================================= claims
\* C1: after every accept on the control socket ApiState.stream holds the
\* most recently accepted transport, and every transport installed before it
\* has been dropped with shutdown(Both) invoked on it exactly once (never on
\* the installed one).  When the accept panics, the new transport is
\* installed all the same and only the transport it displaced may have no
\* completed shutdown.
C1_LastTransportInstalled ==
    /\ stream = accepted
    /\ stream # 0 => shutdownCalls[stream] = 0 /\ stream \notin released
    /\ \A t \in 1..accepted :
          t # stream =>
             /\ t \in released
             /\ shutdownCalls[t] <= 1
             /\ callsAtRelease[t] = shutdownCalls[t]
             /\ (~aborted \/ t # accepted - 1) => shutdownCalls[t] = 1

\* three accepts, the last one through the callback restart_config registered
C1_Witness ==
    /\ ~aborted /\ accepted >= 3 /\ lastAcceptVia = "restart"
    /\ shutdownCalls[1] = 1 /\ shutdownCalls[2] = 1 /\ stream = accepted

\* C4: when restart_config returns Ok every output's tag set is empty, the
\* keybinds, mousebinds and window rules are empty and the tag-id allocator
\* is at its initial value.
C4_RestartClearsState ==
    rpc = "ret_ok" =>
        /\ \A o \in Outputs : tags[o] = {}
        /\ keybinds = {} /\ mousebinds = {} /\ window_rules = {}
        /\ tagIdCounter = TagIdInitial

\* a successful restart entered with every collection non-empty
C4_Witness == rpc = "ret_ok" /\ ret.dirty

\* C2: whatever the interleaving of submissions, the commands the state
\* owner has executed, followed by those still queued, hold each producer's
\* commands in that producer's submission order: its 1st, 2nd, .. command.
C2_PerProducerOrder ==
    \A p \in Producers :
        LET mine == OfProducer(executed \o queue, p) IN
        /\ Len(mine) = sent[p]
        /\ \A i \in 1..Len(mine) : mine[i] = <<p, i>>

\* two producers have each had two commands executed, not one after the other
C2_Witness ==
    /\ Len(executed) >= 4
    /\ \A p \in Producers : Len(OfProducer(executed, p)) >= 2
    /\ executed[1][1] # executed[2][1]

Commands == Producers \X (1..MaxSubmits)
InSeq(seq, c) == \E i \in 1..Len(seq) : seq[i] = c
Count(seq, c) == Cardinality({i \in 1..Len(seq) : seq[i] = c})
Submitted(c) == c[2] <= sent[c[1]]

\* C3 (safety part): a submitted command is queued or executed, once in all;
\* the receiver is registered only by the idle callback, after start_config.
C3_NoLossNoDuplicate ==
    /\ \A c \in Commands :
          Count(executed, c) + Count(queue, c) = IF Submitted(c) THEN 1 ELSE 0
    /\ rxRegistered => chanPc = "running"
    /\ ~rxRegistered => executed = <<>>

\* C3: every submitted command is executed exactly once, also one submitted
\* before the receiver was registered: never lost, never run twice, and
\* eventually run as long as the owning thread keeps taking turns.
C3_ExecutedExactlyOnce ==
    /\ []C3_NoLossNoDuplicate
    /\ \A c \in Commands : Submitted(c) ~> InSeq(executed, c)

\* a command submitted before the receiver was registered has been executed
C3_Witness == \E c \in early : InSeq(executed, c) /\ chanPc = "running"

\* d is in the configured-device list
IsConfigured(d) == \E i \in DOMAIN libinput_devices : libinput_devices[i] = d

\* C5: a device-added event for a device that is already configured (added
\* before, not removed since) applies no setting and leaves the registry, the
\* configured-device list and the application counts as they were.
C5_SecondAddIsNoOp ==
    [][\A d \in Devices :
          (lastEvent'.kind = "added" /\ lastEvent'.device = d
             /\ IsConfigured(d))
          => /\ lastApplied' = {}
             /\ UNCHANGED <<libinput_devices, libinput_settings,
                            applications, connects>>]_vars

\* the same device added twice in a row, with a setting applied the first time
C5_Witness ==
    \E d \in Devices :
        /\ lastEvent = [kind |-> "added", device |-> d]
        /\ lastApplied = {} /\ connects[d] = 1 /\ removals[d] = 0
        /\ \E c \in Categories : applications[d][c] = 1

\* C6: a device-added event for an unconfigured device applies, in each
\* category on its own, the setting of the most recently registered entry
\* whose filter matches the device and no other; none when no filter matches.
C6_MostRecentMatchWins ==
    [][\A d \in Devices :
          (lastEvent'.kind = "added" /\ lastEvent'.device = d
             /\ ~IsConfigured(d))
          => \A c \in Categories :
               LET entries == libinput_settings[c]
                   hits == {i \in 1..Len(entries) : d \in entries[i]}
                   mine == {a \in lastApplied' : a[1] = c}
               IN IF hits = {} THEN mine = {}
                  ELSE /\ Cardinality(mine) = 1
                       /\ \A a \in mine : a[2] \in hits
                                           /\ \A j \in hits : j <= a[2]]_vars

\* two entries of one category match the device, the later one was applied,
\* and the other category had no matching entry
C6_Witness ==
    \E c \in Categories : \E c2 \in Categories \ {c} :
        LET d == lastEvent.device IN
        /\ lastEvent.kind = "added"
        /\ Len(libinput_settings[c]) = 2
        /\ d \in libinput_settings[c][1] /\ d \in libinput_settings[c][2]
        /\ lastApplied = {<<c, 2>>}
        /\ \A i \in 1..Len(libinput_settings[c2]) : d \notin libinput_settings[c2][i]

\* C10 as claimed: no setting category is applied to a device more than once
\* in the life of the process, also when the device is removed and added
\* again.
C10_AtMostOncePerLifetime ==
    \A d \in Devices : \A c \in Categories : applications[d][c] <= 1

\* C10 as the code has it: the settings are applied once per connection of a
\* device, that is at its first device-added and at the first device-added
\* after each device-removed, and never twice without a device-removed
\* in between; a device-removed leaves the device unconfigured.
C10_OncePerConnection ==
    \A d \in Devices :
        /\ connects[d] = removals[d] + (IF IsConfigured(d) THEN 1 ELSE 0)
        /\ \A c \in Categories :
              applications[d][c] \in {0, connects[d]}
        /\ lastEvent = [kind |-> "removed", device |-> d]
              => ~IsConfigured(d)

\* a device was added, removed and added again, and a setting applied twice
C10_Witness ==
    \E d \in Devices : \E c \in Categories :
        /\ removals[d] = 1 /\ connects[d] = 2 /\ applications[d][c] = 2

\* the idle callbacks pending for call j
Pending(j) == Count(idles \o runningIdles, j)

\* C7: the action of schedule(predicate, action) runs exactly once, at the
\* first check with the predicate true: in the (K+1)-th turn counted from the
\* turn of the call when the predicate is false for exactly K turns, never
\* earlier.  With K = 0 it runs inside the call and no idle callback is
\* queued; until it runs exactly one re-check is pending.
C7_RunsOnTurnKPlus1 ==
    \A j \in Jobs :
        /\ runs[j] <= 1
        /\ jobState[j] = "uncalled" => runs[j] = 0 /\ Pending(j) = 0
        /\ jobState[j] = "done" =>
              /\ runs[j] = 1 /\ Pending(j) = 0
              /\ runTurn[j] = callTurn[j] + jobK[j]
              /\ everQueued[j] <=> jobK[j] > 0
        /\ jobState[j] = "waiting" =>
              /\ runs[j] = 0 /\ Pending(j) = 1
              /\ turn <= callTurn[j] + jobK[j]

\* a call whose predicate was false for two turns ran in the third
C7_Witness ==
    \E j \in Jobs :
        /\ jobState[j] = "done" /\ jobK[j] = 2
        /\ runTurn[j] = callTurn[j] + 2 /\ runs[j] = 1

\* C8: when the on-connect closure of a layout stream runs, its sender
\* replaces whatever layout_request_sender held, also the sender of a stream
\* that is still open; every later push goes to the stream that connected
\* last and to no other.
C8_PushReachesLastConnected ==
    [][/\ connectLog' # connectLog =>
            layout_request_sender' = connectLog'[Len(connectLog')]
       /\ \A s \in Streams :
            received'[s] # received[s] =>
               /\ connectLog # <<>>
               /\ s = connectLog[Len(connectLog)]
               /\ \A o \in Streams \ {s} : received'[o] = received[o]]_vars

\* two streams are open, the second connected last and got every push made
\* since, the first none
C8_Witness ==
    \E s1 \in Streams : \E s2 \in Streams \ {s1} :
        /\ streamState[s1] = "open" /\ streamState[s2] = "open"
        /\ connectLog = <<s1, s2>>
        /\ received[s1] = 0 /\ received[s2] = 2
        /\ lastPush.to = s2

\* C9: once a layout stream is torn down and the state owner has run every
\* closure submitted for it, layout_request_sender does not hold that
\* stream's sender, and no push goes to the sender of a closed stream.
C9_TeardownClearsSlot ==
    /\ \A s \in Streams :
          (/\ streamState[s] = "closed"
           /\ \A i \in 1..Len(fnQueue) : fnQueue[i].stream # s)
          => layout_request_sender # s
    /\ ~lastPush.closed

\* C11: in every reachable state of init, accepts and restarts (the kill
\* succeeding or failing) at most one accepted control-socket transport has
\* not been shut down, and at most one config child spawned by the core is
\* still running.
C11_AtMostOneLive ==
    /\ ~aborted =>
          Cardinality({t \in 1..accepted : shutdownCalls[t] = 0}) <= 1
    /\ Cardinality(running) <= 1

\* C14: when restart_config has returned, with Ok or with Err, every config
\* child that is still running is the one ApiState.config_process refers to.
C14_RunningChildIsReferenced ==
    (rpc \in {"ret_ok", "ret_err"} /\ ~aborted) =>
        running \subseteq {config_process}

C17_KillFailureOnlyLogged ==
    ret.kill = "err" =>
        /\ rpc = "ret_err" => Len(ret.steps) >= 4 /\ ret.steps[4] = "start"
        /\ rpc = "ret_ok" =>
              /\ ret.pre.socket_token \notin DOMAIN sources
              /\ ret.child = spawned /\ ret.child # ret.pre.config_process
              /\ config_process = ret.child
              /\ socket_token \in DOMAIN sources
              /\ sources[socket_token] = "restart"
              /\ reload_keybind = restarts /\ kill_keybind = restarts

\* restart_config returned Ok although the kill failed
C17_Witness == rpc = "ret_ok" /\ ret.kill = "err" /\ ~aborted

\* C18: once a restart_config has returned Ok, every command the state
\* owner executes comes from the config child that restart spawned, never
\* from an earlier child's client.
C18_NoStaleCommand ==
    [][(/\ cmdQueue # <<>>
        /\ cmdQueue' = Tail(cmdQueue)
        /\ restarts > 0 /\ reload_keybind = restarts)
       => Head(cmdQueue) = config_process]_vars

C20_FailedShutdownAborts ==
    /\ lastShutdown \in {"shutdown_err", "lock_poisoned"} =>
          /\ aborted
          /\ stream = accepted /\ stream \notin released
          /\ (accepted - 1) \in released
    /\ stream = accepted

\* the second accept panicked on a shutdown error
C20_Witness ==
    /\ lastShutdown = "shutdown_err" /\ aborted
    /\ accepted = 2 /\ stream = 2 /\ 1 \in released

\* C12: an ExplicitLayout request calls request_layout for at most one
\* output: the named output when a name is given and resolves, otherwise the
\* focused output when there is one; when neither resolves it changes no
\* state.  In every case it logs no error and leaves the stream, the sender
\* slot and the outputs as they are.
C12_ExplicitLayoutTarget ==
    [][(/\ fnQueue # <<>>
        /\ fnQueue' = Tail(fnQueue)
        /\ Head(fnQueue).kind = "request"
        /\ Head(fnQueue).body.type = "layout")
       => LET name == Head(fnQueue).body.name
              resolves == name # 0 /\ name \in outputsPresent
          IN /\ lastRequest'.body = Head(fnQueue).body
             /\ Cardinality(lastRequest'.calls) <= 1
             /\ resolves => lastRequest'.calls = {name}
             /\ (~resolves /\ focusedOutput # 0) =>
                   lastRequest'.calls = {focusedOutput}
             /\ (~resolves /\ focusedOutput = 0) => lastRequest'.calls = {}
             /\ ~lastRequest'.logged
             /\ streamState' = streamState
             /\ layout_request_sender' = layout_request_sender
             /\ UNCHANGED <<received, connectLog, lastPush, outputsPresent,
                            focusedOutput, requested>>]_vars

\* a request naming output 1, which does not exist, went to the focused
\* output 2
C12_Witness ==
    /\ lastRequest.body = [type |-> "layout", name |-> 1]
    /\ lastRequest.calls = {2}
    /\ 1 \notin outputsPresent /\ focusedOutput = 2

\* the characters the claim counts as separators
IsWhitespace(c) == c \in {" ", "\t"}

\* the whitespace-delimited tokens of a string, in order
Words(str) ==
    LET RECURSIVE go(_, _, _)
        go(i, word, words) ==
            LET closed == IF word = <<>> THEN words ELSE Append(words, word)
            IN IF i > Len(str) THEN closed
               ELSE IF IsWhitespace(str[i]) THEN go(i + 1, <<>>, closed)
               ELSE go(i + 1, Append(word, str[i]), words)
    IN go(1, <<>>, <<>>)

\* C15: start_config splits the command on whitespace: the program is the
\* first whitespace-delimited token and the arguments are the remaining
\* tokens in order, none of them the empty string; an empty command yields
\* the error 'command in metaconfig.toml was empty' and nothing is spawned.
C15_SplitsOnWhitespace ==
    (scPc = "returned" /\ scResult \notin {"parse_err", "socket_dir_err",
                                           "socket_err"}) =>
        LET words == Words(metaconfig.command) IN
        IF words = <<>>
          THEN scResult = "command_empty_err" /\ scSpawn = NoSpawn
          ELSE /\ scSpawn.program = Head(words)
               /\ scSpawn.args = Tail(words)

\* the parts of an env value that are not references to unset variables
Defined(str, env) ==
    LET keep(p) == ~p.ref \/ env[p.name].set IN SelectSeq(str, keep)

\* C13: an env entry with a string value is passed to the spawned config
\* whatever variables it references: a reference to a variable that is not
\* set in the core's environment becomes the empty string, so the value
\* passed is that of the entry without those references, and start_config
\* neither fails nor drops the entry because of them.
C13_UndefinedExpandsToEmpty ==
    (scPc = "returned" /\ scResult \in {"ok", "spawn_panic"}) =>
        \A k \in EnvKeys :
           LET val == metaconfig.envs.table[k]
               rest == Defined(val.parts, processEnv)
           IN val.kind = "string" =>
                 /\ k \in DOMAIN scSpawn.envs
                 /\ Len(scSpawn.envs[k]) = Len(rest)
                 /\ \A i \in 1..Len(rest) :
                       scSpawn.envs[k][i] =
                          IF rest[i].ref THEN "v" ELSE rest[i].name

\* the config was spawned with K1 = "x" from the entry K1 = "x$A", A unset
C13_Witness ==
    /\ scPc = "returned" /\ scResult = "ok"
    /\ metaconfig.envs.table["K1"] =
          [kind |-> "string", parts |-> <<Lit("x"), Ref("A")>>]
    /\ ~processEnv["A"].set
    /\ scSpawn.envs = [k \in {"K1"} |-> <<"x">>]

\* C21: when every sender of the command channel is gone the state owner
\* sees the closure and aborts: it takes no step after that, and by then it
\* has executed every command that was submitted, each once.
C21_ClosureAbortsAfterDrain ==
    /\ [](chanAborted =>
             /\ ~chanOpen /\ queue = <<>>
             /\ Len(executed) = SumSent
             /\ \A p \in Producers : \A i \in 1..sent[p] :
                   \E k \in 1..Len(executed) : executed[k] = <<p, i>>)
    /\ [][~chanAborted]_vars
    /\ (~chanOpen ~> chanAborted)

\* the owner aborted on the closure after executing three commands, one of
\* them submitted before the receiver was registered
C21_Witness ==
    /\ chanAborted /\ Len(executed) >= 3 /\ early # {}

RECURSIVE RequestSeqs(_)
RequestSeqs(q) ==
    IF q = <<>> THEN <<>>
    ELSE IF Head(q).seq # 0 THEN <<Head(q).seq>> \o RequestSeqs(Tail(q))
    ELSE RequestSeqs(Tail(q))

\* C24: a failing Geometries request is only logged: nothing is pushed to a
\* client, the stream stays open and the installed sender is kept; no request
\* is dropped and the requests are executed in arrival order, those after a
\* failed one included.
C24_GeometriesFailureOnlyLogged ==
    /\ [][(/\ Len(executedRequests') = Len(executedRequests) + 1
           /\ executedRequests'[Len(executedRequests')].failed)
          => /\ Head(fnQueue).body.type = "geometries"
             /\ lastRequest'.logged
             /\ lastRequest'.calls = {}
             /\ received' = received
             /\ lastPush' = lastPush
             /\ streamState' = streamState
             /\ streamState[Head(fnQueue).stream] = "open"
             /\ layout_request_sender' = layout_request_sender
             /\ fnQueue' = Tail(fnQueue)]_vars
    /\ [](RequestSeqs(executedRequests) \o RequestSeqs(fnQueue)
             = [i \in 1..requested |-> i])

\* a request of the stream whose Geometries request failed was executed
\* after the failure, with a sender installed that pushes could go to
C24_Witness ==
    /\ Len(executedRequests) = 2
    /\ executedRequests[1].failed
    /\ executedRequests[2].stream = executedRequests[1].stream
    /\ executedRequests[2].seq > executedRequests[1].seq
    /\ layout_request_sender = executedRequests[1].stream
    /\ received[layout_request_sender] > 0

\* C25: after any sequence of device-added and device-removed events the
\* configured-device list has no duplicates and holds exactly the devices
\* whose last event was device-added, the ones no filter matched included;
\* a device-removed event applies no setting.
C25_ListHoldsAddedDevices ==
    /\ [](/\ \A i, j \in DOMAIN libinput_devices :
                libinput_devices[i] = libinput_devices[j] => i = j
          /\ \A d \in Devices : IsConfigured(d) <=> lastAdded[d]
          /\ \A i \in DOMAIN libinput_devices : libinput_devices[i] \in Devices)
    /\ [][lastEvent'.kind = "removed" =>
             /\ lastApplied' = {}
             /\ applications' = applications
             /\ libinput_settings' = libinput_settings]_vars

\* a device no filter of any category matches is in the list after its
\* device-added, next to a device that was removed and added again
C25_Witness ==
    \E d \in Devices : \E e \in Devices \ {d} :
        /\ lastEvent = [kind |-> "added", device |-> d]
        /\ IsConfigured(d) /\ lastApplied = {}
        /\ \A c \in Categories :
              /\ applications[d][c] = 0
              /\ \A i \in 1..Len(libinput_settings[c]) :
                    d \notin libinput_settings[c][i]
        /\ connects[d] = 1
        /\ IsConfigured(e) /\ removals[e] = 1

\* C26: start_config leaves the working directory of the process as it was
\* at entry on every return path, the error paths of resolving an explicit
\* socket_dir included.
C26_WorkingDirectoryRestored ==
    scPc = "returned" => cwd = StartDir

\* C27: the control-socket directory start_config chooses is the
\* metaconfig's socket_dir, resolved against the config directory and
\* canonicalized, when there is one, whether or not a runtime directory
\* exists; else the runtime directory when it exists; else the fallback.
C27_SocketDirPrecedence ==
    (scPc \in {"socket", "spawn"}
       \/ (scPc = "returned" /\ scResult \notin {"parse_err", "socket_dir_err"}))
    => LET given == metaconfig.socket_dir IN
       /\ given.some =>
             /\ socketDir.name = given.name
             /\ socketDir.base = (IF given.absolute THEN "/" ELSE ConfigDir)
       /\ (~given.some /\ runtimeDir.some) => socketDir = runtimeDir.dir
       /\ (~given.some /\ ~runtimeDir.some) =>
             socketDir = [base |-> "/", name |-> "tmp"]

\* a relative socket_dir was chosen although a runtime directory exists,
\* and the config was spawned
C27_Witness ==
    /\ scPc = "returned" /\ scResult = "ok"
    /\ metaconfig.socket_dir = [some |-> TRUE, absolute |-> FALSE,
                                name |-> "socket"]
    /\ runtimeDir.some
    /\ socketDir = [base |-> ConfigDir, name |-> "socket"]
    /\ cwd = StartDir

=============================================================================
